---- MODULE Spec2Model ----
(***************************************************************************)
(* Model of examples/python/basic/simple_search.py: the SimpleKodeposClient *)
(* (search_postal_codes, detect_location), format_results, the interactive  *)
(* loops, the menu, the quick demo and the command-line entry point.        *)
(*                                                                          *)
(* Strings are sequences of one-character strings, so that strip, lower,    *)
(* split and float act on them as Python does.  Coordinates are whole       *)
(* degrees.  A printed line is a short tuple: a tag for the fixed text of   *)
(* the line followed by the interpolated values.  An optional value is a    *)
(* sequence of length 0 (absent) or 1 (present).                            *)
(***************************************************************************)
EXTENDS Integers, Sequences, FiniteSets, TLC

VARIABLES
    pc,         \* position of the caller (entry point, menu, loops, demo)
    argv,       \* sys.argv
    exitCode,   \* <<>> while the process runs, <<code>> once it has ended
    loopEnd,    \* <<>>, or <<what ended the interactive loop>>
    demoIdx,    \* index of the next entry of demo_queries
    cpc,        \* position inside the client method being executed
    op,         \* the client method: "search" or "detect"
    query,      \* argument of search_postal_codes
    latitude,   \* argument of detect_location
    longitude,  \* argument of detect_location
    netCalls,   \* session.get calls issued by the current method call
    net,        \* <<>>, or <<outcome of the session.get of this call>>
    ret,        \* how the current method call ended
    results,    \* argument of format_results
    out         \* lines printed by the latest step

vars == <<pc, argv, exitCode, loopEnd, demoIdx, cpc, op, query, latitude,
          longitude, netCalls, net, ret, results, out>>

callerVars == <<pc, argv, exitCode, loopEnd, demoIdx, results, out>>

(***************************************************************************)
(* Configuration                                                           *)
(***************************************************************************)
TIMEOUT_SECONDS == 10

LAT_MIN == -11

LAT_MAX == 6

LON_MIN == 95

LON_MAX == 141

(***************************************************************************)
(* Bounds of the model                                                     *)
(***************************************************************************)
MaxLen == 3

Margin == 2

MaxRecords == 2

(***************************************************************************)
(* Python strings                                                          *)
(***************************************************************************)
Whitespace == {" ", "\t"}

RECURSIVE lstrip(_)
lstrip(s) ==
    IF s # <<>> /\ Head(s) \in Whitespace THEN lstrip(Tail(s)) ELSE s

RECURSIVE rstrip(_)
rstrip(s) ==
    IF s # <<>> /\ s[Len(s)] \in Whitespace
    THEN rstrip(SubSeq(s, 1, Len(s) - 1))
    ELSE s

strip(s) == rstrip(lstrip(s))

(***************************************************************************)
(* Exceptions: a type and a message; IsInstance follows the class          *)
(* hierarchy of Python and of the requests library.                        *)
(***************************************************************************)
Exc(type, msg) == [type |-> type, msg |-> msg]

Bases(type) ==
    CASE type = "ValueError"        -> {"ValueError", "Exception"}
      [] type = "AttributeError"    -> {"AttributeError", "Exception"}
      [] type = "KeyError"          -> {"KeyError", "Exception"}
      [] type = "TypeError"         -> {"TypeError", "Exception"}
      [] type = "EOFError"          -> {"EOFError", "Exception"}
      [] type = "KeyboardInterrupt" -> {"KeyboardInterrupt"}
      [] type = "RequestException"  -> {"RequestException", "Exception"}
      [] type = "HTTPError"         -> {"HTTPError", "RequestException", "Exception"}
      [] type = "ConnectionError"   -> {"ConnectionError", "RequestException", "Exception"}
      [] type = "ReadTimeout"       -> {"ReadTimeout", "Timeout", "RequestException", "Exception"}
      [] type = "ConnectTimeout"    -> {"ConnectTimeout", "Timeout", "ConnectionError",
                                        "RequestException", "Exception"}
      [] type = "TooManyRedirects"  -> {"TooManyRedirects", "RequestException", "Exception"}
      [] type = "JSONDecodeError"   -> {"JSONDecodeError", "ValueError",
                                        "RequestException", "Exception"}
      [] OTHER                      -> {type}

IsInstance(e, class) == class \in Bases(e.type)

(***************************************************************************)
(* SimpleKodeposClient.search_postal_codes: validation                     *)
(* A query is [type, v]: a str with characters v, None, or a nonzero int.  *)
(***************************************************************************)
Str(s) == [type |-> "str", v |-> s]

Truthy(q) ==
    CASE q.type = "str"      -> q.v # <<>>
      [] q.type = "NoneType" -> FALSE
      [] OTHER               -> TRUE

search_validate_nostrip(q) ==
    IF ~Truthy(q) \/ q.type # "str"
    THEN <<Exc("ValueError", "Query must be a non-empty string")>>
    ELSE IF Len(q.v) < 2
         THEN <<Exc("ValueError", "Query must be at least 2 characters long")>>
         ELSE <<>>

search_validate(q) ==
    IF ~Truthy(q) \/ q.type # "str"
    THEN <<Exc("ValueError", "Query must be a non-empty string")>>
    ELSE IF Len(strip(q.v)) < 2
         THEN <<Exc("ValueError", "Query must be at least 2 characters long")>>
         ELSE <<>>

(***************************************************************************)
(* SimpleKodeposClient.detect_location: validation                         *)
(***************************************************************************)
detect_validate_strict(lat, lng) ==
    IF ~(LAT_MIN < lat /\ lat < LAT_MAX)
    THEN <<Exc("ValueError",
               "Latitude must be between -11 and 6 degrees (Indonesian bounds)")>>
    ELSE IF ~(LON_MIN < lng /\ lng < LON_MAX)
         THEN <<Exc("ValueError",
                    "Longitude must be between 95 and 141 degrees (Indonesian bounds)")>>
         ELSE <<>>

detect_validate(lat, lng) ==
    IF ~(LAT_MIN <= lat /\ lat <= LAT_MAX)
    THEN <<Exc("ValueError",
               "Latitude must be between -11 and 6 degrees (Indonesian bounds)")>>
    ELSE IF ~(LON_MIN <= lng /\ lng <= LON_MAX)
         THEN <<Exc("ValueError",
                    "Longitude must be between 95 and 141 degrees (Indonesian bounds)")>>
         ELSE <<>>

(***************************************************************************)
(* JSON values of the service: records, envelopes                          *)
(* An item of a result list is a dict (a PostalRecord, each field          *)
(* optional), or a value of another JSON type.                             *)
(***************************************************************************)
Record(village, code, admin, lat, lng, elevation, timezone, distance) ==
    [type |-> "dict", village |-> village, code |-> code, district |-> admin,
     regency |-> admin, province |-> admin, latitude |-> lat, longitude |-> lng,
     elevation |-> elevation, timezone |-> timezone, distance |-> distance]

NonDict(type) ==
    [type |-> type, village |-> <<>>, code |-> <<>>, district |-> <<>>,
     regency |-> <<>>, province |-> <<>>, latitude |-> <<>>, longitude |-> <<>>,
     elevation |-> <<>>, timezone |-> <<>>, distance |-> <<>>]

Menteng ==
    Record(<<"Menteng">>, <<"10110">>, <<"Jakarta Pusat">>, <<-6>>, <<106>>,
           <<50>>, <<"WIB">>, <<2>>)

Pontianak ==
    Record(<<"Pontianak">>, <<"78111">>, <<"Pontianak">>, <<0>>, <<109>>,
           <<0>>, <<"WIB">>, <<0>>)

CodeOnly ==
    Record(<<>>, <<"10110">>, <<>>, <<>>, <<>>, <<>>, <<>>, <<>>)

EmptyDict == Record(<<>>, <<>>, <<>>, <<>>, <<>>, <<>>, <<>>, <<>>)

Fields ==
    {"village", "code", "district", "regency", "province", "latitude",
     "longitude", "elevation", "timezone", "distance"}

\* the keys of a dict
Keys(item) == {f \in Fields : item[f] # <<>>}

NoData == [kind |-> "absent", items |-> <<>>]

ListData(items) == [kind |-> "list", items |-> items]

DictData(item) == [kind |-> "dict", items |-> <<item>>]

Envelope(statusCode, data, error) ==
    [type |-> "dict", statusCode |-> statusCode, data |-> data, error |-> error]

NonDictJson == [type |-> "list", statusCode |-> <<>>, data |-> NoData, error |-> <<>>]

Envelopes ==
    { Envelope(<<200>>, ListData(<<>>), <<>>),
      Envelope(<<200>>, ListData(<<Menteng>>), <<>>),
      Envelope(<<200>>, ListData(<<Pontianak, CodeOnly>>), <<>>),
      Envelope(<<200>>, ListData(<<Menteng, NonDict("str")>>), <<>>),
      Envelope(<<200>>, DictData(Pontianak), <<>>),
      Envelope(<<200>>, DictData(EmptyDict), <<>>),
      Envelope(<<200>>, NoData, <<>>),
      Envelope(<<404>>, NoData, <<"Not found">>),
      Envelope(<<>>, NoData, <<>>),
      NonDictJson }

(***************************************************************************)
(* What session.get can do: raise, or deliver a response with a status and *)
(* a body; the body is <<v>> when it is the JSON text of v, <<>> when it is *)
(* not JSON.                                                               *)
(***************************************************************************)
NetRaise(type) == [raises |-> <<type>>, status |-> 0, body |-> <<>>]

NetResponse(status, body) == [raises |-> <<>>, status |-> status, body |-> body]

Statuses == {200, 204, 304, 399, 400, 404, 503, 599, 600}

Bodies == {<<>>} \cup {<<e>> : e \in Envelopes}

GetRaises ==
    {"ReadTimeout", "ConnectTimeout", "ConnectionError", "TooManyRedirects",
     "KeyboardInterrupt"}

NetOutcomes ==
    {NetRaise(t) : t \in GetRaises}
        \cup {NetResponse(s, b) : s \in Statuses, b \in Bodies}

(***************************************************************************)
(* The try block of both client methods, and its except clauses            *)
(***************************************************************************)
Returned(v) == [status |-> "returned", value |-> <<v>>, exc |-> <<>>]

Raised(e) == [status |-> "raised", value |-> <<>>, exc |-> <<e>>]

NoRet == [status |-> "none", value |-> <<>>, exc |-> <<>>]

\* response.raise_for_status(): does the status raise HTTPError
raise_for_status_non2xx(status) == status < 200 \/ status >= 300

raise_for_status(status) == 400 <= status /\ status < 600

\* session.get, raise_for_status, response.json()
try_body(n) ==
    IF n.raises # <<>> THEN Raised(Exc(n.raises[1], ""))
    ELSE IF raise_for_status(n.status) THEN Raised(Exc("HTTPError", ToString(n.status)))
    ELSE IF n.body = <<>> THEN Raised(Exc("JSONDecodeError", "Expecting value"))
    ELSE Returned(n.body[1])

except_clauses_swapped(e, n) ==
    IF IsInstance(e, "ConnectionError")
    THEN Exc("RequestException", "Failed to connect to API")
    ELSE IF IsInstance(e, "Timeout")
    THEN Exc("RequestException",
             "Request timeout after " \o ToString(TIMEOUT_SECONDS) \o " seconds")
    ELSE IF IsInstance(e, "HTTPError")
    THEN Exc("RequestException", "HTTP error: " \o ToString(n.status))
    ELSE e

\* except requests.Timeout / ConnectionError / HTTPError: the exception that
\* leaves the method when e was raised in the try block
except_clauses(e, n) ==
    IF IsInstance(e, "Timeout")
    THEN Exc("RequestException",
             "Request timeout after " \o ToString(TIMEOUT_SECONDS) \o " seconds")
    ELSE IF IsInstance(e, "ConnectionError")
    THEN Exc("RequestException", "Failed to connect to API")
    ELSE IF IsInstance(e, "HTTPError")
    THEN Exc("RequestException", "HTTP error: " \o ToString(n.status))
    ELSE e

try_except(n) ==
    IF try_body(n).status = "raised"
    THEN Raised(except_clauses(try_body(n).exc[1], n))
    ELSE try_body(n)

after_get_retry(n) == IF n.raises # <<>> THEN "get" ELSE "handle"

\* where control goes once session.get has come back: on to the rest of the
\* try block and its except clauses, never back to the get
after_get(n) == "handle"

(***************************************************************************)
(* The client methods, step by step                                        *)
(***************************************************************************)
Enter(method, q, lat, lng) ==
    /\ op' = method
    /\ query' = q
    /\ latitude' = lat
    /\ longitude' = lng
    /\ netCalls' = 0
    /\ net' = <<>>
    /\ ret' = NoRet
    /\ cpc' = "validate"

Leave ==
    /\ cpc' = "idle"
    /\ op' = "none"
    /\ query' = Str(<<>>)
    /\ latitude' = 0
    /\ longitude' = 0
    /\ netCalls' = 0
    /\ net' = <<>>
    /\ ret' = NoRet

clientVars == <<cpc, op, query, latitude, longitude, netCalls, net, ret>>

SearchValidate ==
    /\ cpc = "validate" /\ op = "search"
    /\ IF search_validate(query) # <<>>
       THEN /\ ret' = Raised(search_validate(query)[1])
            /\ cpc' = "done"
            /\ query' = query
       ELSE /\ query' = Str(strip(query.v))
            /\ cpc' = "get"
            /\ ret' = ret
    /\ UNCHANGED <<op, latitude, longitude, netCalls, net, callerVars>>

DetectValidate ==
    /\ cpc = "validate" /\ op = "detect"
    /\ IF detect_validate(latitude, longitude) # <<>>
       THEN /\ ret' = Raised(detect_validate(latitude, longitude)[1])
            /\ cpc' = "done"
       ELSE /\ cpc' = "get"
            /\ ret' = ret
    /\ UNCHANGED <<op, query, latitude, longitude, netCalls, net, callerVars>>

SessionGet ==
    /\ cpc = "get"
    /\ \E n \in NetOutcomes :
          /\ net' = <<n>>
          /\ cpc' = after_get(n)
    /\ netCalls' = netCalls + 1
    /\ UNCHANGED <<op, query, latitude, longitude, ret, callerVars>>

HandleResponse ==
    /\ cpc = "handle"
    /\ ret' = try_except(net[1])
    /\ cpc' = "done"
    /\ UNCHANGED <<op, query, latitude, longitude, netCalls, net, callerVars>>

ClientStep == SearchValidate \/ DetectValidate \/ SessionGet \/ HandleResponse

(***************************************************************************)
(* SpecClient: the two methods called directly with every input of the     *)
(* bounded sets                                                            *)
(***************************************************************************)
Alphabet == {" ", "\t", "a", "b"}

Strings == UNION {[1..n -> Alphabet] : n \in 0..MaxLen}

Queries ==
    {Str(s) : s \in Strings}
        \cup {[type |-> "NoneType", v |-> <<>>], [type |-> "int", v |-> <<>>]}

Latitudes == (LAT_MIN - Margin)..(LAT_MAX + Margin)

Longitudes ==
    ((LON_MIN - Margin)..(LON_MIN + Margin))
        \cup ((LON_MAX - Margin)..(LON_MAX + Margin))

InitCommon ==
    /\ exitCode = <<>>
    /\ loopEnd = <<>>
    /\ demoIdx = 1
    /\ cpc = "idle"
    /\ op = "none"
    /\ query = Str(<<>>)
    /\ latitude = 0
    /\ longitude = 0
    /\ netCalls = 0
    /\ net = <<>>
    /\ ret = NoRet
    /\ out = <<>>

InitClient ==
    /\ InitCommon
    /\ pc = "harness"
    /\ argv = <<>>
    /\ results = <<>>

CallSearch ==
    /\ pc = "harness" /\ cpc = "idle"
    /\ \E q \in Queries : Enter("search", q, 0, 0)
    /\ UNCHANGED callerVars

CallDetect ==
    /\ pc = "harness" /\ cpc = "idle"
    /\ \E lat \in Latitudes, lng \in Longitudes : Enter("detect", Str(<<>>), lat, lng)
    /\ UNCHANGED callerVars

CallEnds ==
    /\ pc = "harness" /\ cpc = "done"
    /\ Leave
    /\ UNCHANGED callerVars

NextClient == CallSearch \/ CallDetect \/ ClientStep \/ CallEnds

SpecClient == InitClient /\ [][NextClient]_vars

(***************************************************************************)
(* format_results                                                          *)
(***************************************************************************)
NoResultsLine == <<"No results found.">>

HeaderLine(n) == <<"Found results:", n>>

SeparatorLine(n) == <<"=", n>>

\* item.get(key, 'N/A')
GetOrNA(field) == IF field = <<>> THEN "N/A" ELSE field[1]

\* truth value of item.get(key) for a numeric field: None and 0 are false
IsTrue(field) == field # <<>> /\ field[1] # 0

\* truth value of item.get(key) for a text field: None and "" are false
IsTrueText(field) == field # <<>> /\ field[1] # ""

\* the lines printed by one pass of the loop body
Block(index, item) ==
    << <<"village", index, GetOrNA(item.village)>>,
       <<"Postal Code", GetOrNA(item.code)>>,
       <<"District", GetOrNA(item.district)>>,
       <<"Regency", GetOrNA(item.regency)>>,
       <<"Province", GetOrNA(item.province)>> >>
    \o (IF IsTrue(item.latitude) /\ IsTrue(item.longitude)
        THEN << <<"Coordinates", item.latitude[1], item.longitude[1]>> >>
        ELSE <<>>)
    \o (IF IsTrue(item.elevation)
        THEN << <<"Elevation", item.elevation[1]>> >> ELSE <<>>)
    \o (IF IsTrueText(item.timezone)
        THEN << <<"Timezone", item.timezone[1]>> >> ELSE <<>>)
    \o (IF IsTrue(item.distance)
        THEN << <<"Distance", item.distance[1]>> >> ELSE <<>>)

enumerate_from_zero(rs) == [i \in 1..Len(rs) |-> <<i - 1, rs[i]>>]

\* enumerate(results, 1)
enumerate(rs) == [i \in 1..Len(rs) |-> <<i, rs[i]>>]

\* the for loop: item.get raises AttributeError on an item that is no dict,
\* which ends the loop with the earlier blocks printed
RECURSIVE ForLoop(_, _)
ForLoop(pairs, k) ==
    IF k > Len(pairs) THEN [lines |-> <<>>, exc |-> <<>>]
    ELSE IF pairs[k][2].type # "dict"
    THEN [lines |-> <<>>,
          exc |-> <<Exc("AttributeError", "object has no attribute 'get'")>>]
    ELSE [lines |-> Block(pairs[k][1], pairs[k][2]) \o ForLoop(pairs, k + 1).lines,
          exc |-> ForLoop(pairs, k + 1).exc]

\* lines 134-158: header, separator and the loop
Report(rs) ==
    [lines |-> <<HeaderLine(Len(rs)), SeparatorLine(60)>> \o ForLoop(enumerate(rs), 1).lines,
     exc |-> ForLoop(enumerate(rs), 1).exc]

format_results_no_return(rs) ==
    IF rs = <<>>
    THEN [lines |-> <<NoResultsLine>> \o Report(rs).lines, exc |-> <<>>]
    ELSE Report(rs)

\* format_results(results): the lines it prints and the exception it raises
format_results(rs) ==
    IF rs = <<>> THEN [lines |-> <<NoResultsLine>>, exc |-> <<>>]
    ELSE Report(rs)

(***************************************************************************)
(* SpecRender: format_results applied to every sequence of at most         *)
(* MaxRecords records of RenderRecords                                     *)
(***************************************************************************)
RenderRecords ==
    {Record(<<"Menteng">>, <<"10110">>, <<"Jakarta Pusat">>, lat, lng, el, tz, d) :
        lat \in {<<>>, <<0>>, <<-6>>}, lng \in {<<>>, <<106>>},
        el \in {<<>>, <<0>>, <<50>>}, tz \in {<<>>, <<"WIB">>}, d \in {<<>>}}
        \cup {Menteng, Pontianak, CodeOnly, EmptyDict}

InitRender ==
    /\ InitCommon
    /\ pc = "render"
    /\ argv = <<>>
    /\ results \in UNION {[1..n -> RenderRecords] : n \in 0..MaxRecords}

FormatResults ==
    /\ pc = "render"
    /\ out' = format_results(results).lines
    /\ pc' = "rendered"
    /\ UNCHANGED <<argv, exitCode, loopEnd, demoIdx, results, clientVars>>

NextRender == FormatResults

SpecRender == InitRender /\ [][NextRender]_vars

(***************************************************************************)
(* More of Python's str: lower, split, and float restricted to the         *)
(* literals [+-]digits (the inputs of the model hold no other numeric      *)
(* literal, so that float agrees with Python on every one of them)         *)
(***************************************************************************)
UpperCase == <<"E", "H", "I", "L", "P", "T", "X">>

LowerCase == <<"e", "h", "i", "l", "p", "t", "x">>

LowerChar(c) ==
    IF \E k \in 1..Len(UpperCase) : UpperCase[k] = c
    THEN LowerCase[CHOOSE k \in 1..Len(UpperCase) : UpperCase[k] = c]
    ELSE c

lower(s) == [k \in 1..Len(s) |-> LowerChar(s[k])]

RECURSIVE split(_, _)
split(s, sep) ==
    IF \E k \in 1..Len(s) : s[k] = sep
    THEN LET k == CHOOSE j \in 1..Len(s) : s[j] = sep /\ \A i \in 1..(j - 1) : s[i] # sep
         IN  <<SubSeq(s, 1, k - 1)>> \o split(SubSeq(s, k + 1, Len(s)), sep)
    ELSE <<s>>

Digits == <<"0", "1", "2", "3", "4", "5", "6", "7", "8", "9">>

IsDigit(c) == \E k \in 1..Len(Digits) : Digits[k] = c

DigitValue(c) == (CHOOSE k \in 1..Len(Digits) : Digits[k] = c) - 1

RECURSIVE Decimal(_)
Decimal(s) ==
    IF s = <<>> THEN 0
    ELSE 10 * Decimal(SubSeq(s, 1, Len(s) - 1)) + DigitValue(s[Len(s)])

AllDigits(s) == s # <<>> /\ \A k \in 1..Len(s) : IsDigit(s[k])

\* float(text): <<value>>, or <<>> when it raises ValueError
float(text) ==
    LET s == strip(text)
    IN  IF s # <<>> /\ s[1] = "-" /\ AllDigits(Tail(s)) THEN <<0 - Decimal(Tail(s))>>
        ELSE IF s # <<>> /\ s[1] = "+" /\ AllDigits(Tail(s)) THEN <<Decimal(Tail(s))>>
        ELSE IF AllDigits(s) THEN <<Decimal(s)>>
        ELSE <<>>

(***************************************************************************)
(* What the callers do with a returned envelope.  Each operator gives the  *)
(* lines printed and the exception raised, if any.                         *)
(***************************************************************************)
Printed(lines) == [lines |-> lines, exc |-> <<>>]

Throws(type, msg) == [lines |-> <<>>, exc |-> <<Exc(type, msg)>>]

NoGet == Throws("AttributeError", "'list' object has no attribute 'get'")

\* truth value of results.get('data')
DataIsTrue(data) ==
    CASE data.kind = "absent" -> FALSE
      [] data.kind = "list"   -> data.items # <<>>
      [] data.kind = "dict"   -> Keys(data.items[1]) # {}

\* results.get('data', []) as format_results iterates it: a list gives its
\* items, a dict gives its keys, which are strings
Iterated(data) ==
    CASE data.kind = "absent" -> <<>>
      [] data.kind = "list"   -> data.items
      [] data.kind = "dict"   ->
            [k \in 1..Cardinality(Keys(data.items[1])) |-> NonDict("str")]

\* [results['data']]: a list holding the value of data
Wrapped(data) ==
    IF data.kind = "dict" THEN data.items ELSE <<NonDict("list")>>

GetOr(field, default) == IF field = <<>> THEN default ELSE field[1]

\* interactive_search, lines 201-209
interactive_search_body(v) ==
    IF v.type # "dict" THEN NoGet
    ELSE IF v.statusCode = <<200>>
    THEN IF DataIsTrue(v.data) THEN format_results(Iterated(v.data))
         ELSE Printed(<< <<"No results found for your search query.">> >>)
    ELSE Printed(<< <<"Search failed:", GetOr(v.error, "Unknown error")>> >>)

\* interactive_location_detection, lines 272-276
interactive_detect_body(v) ==
    IF v.type # "dict" THEN NoGet
    ELSE IF v.statusCode = <<200>> /\ DataIsTrue(v.data)
    THEN format_results(Wrapped(v.data))
    ELSE Printed(<< <<"Detection failed:",
                      GetOr(v.error, "No postal code found for these coordinates")>> >>)

\* __main__, lines 407-410
main_search_body(v) ==
    IF v.type # "dict" THEN NoGet
    ELSE IF v.statusCode = <<200>> THEN format_results(Iterated(v.data))
    ELSE Printed(<< <<"Error:", GetOr(v.error, "Unknown error")>> >>)

\* __main__, lines 420-423
main_detect_body(v) ==
    IF v.type # "dict" THEN NoGet
    ELSE IF v.statusCode = <<200>> /\ DataIsTrue(v.data)
    THEN format_results(Wrapped(v.data))
    ELSE Printed(<< <<"Error:", GetOr(v.error, "No location found")>> >>)

\* quick_demo, lines 355-366: data[0] and first_result[...] raise on a dict
\* data, on an item that is no dict and on a missing key
demo_search_body(v) ==
    IF v.type # "dict" THEN NoGet
    ELSE IF v.statusCode = <<200>>
    THEN IF ~DataIsTrue(v.data) THEN Printed(<< <<"No results found">> >>)
         ELSE IF v.data.kind = "dict" THEN Throws("KeyError", "0")
         ELSE IF v.data.items[1].type # "dict"
         THEN Throws("TypeError", "string indices must be integers")
         ELSE IF \E f \in {"village", "code", "district", "regency"} :
                    v.data.items[1][f] = <<>>
         THEN Throws("KeyError", "missing key")
         ELSE Printed(<< <<"Found results", Len(v.data.items)>>,
                         <<"Example:", v.data.items[1].village[1], v.data.items[1].code[1]>>,
                         <<"Location:", v.data.items[1].district[1],
                           v.data.items[1].regency[1]>> >>)
    ELSE Printed(<< <<"Error:", GetOr(v.error, "Unknown error")>> >>)

\* quick_demo, lines 379-386
demo_detect_body(v) ==
    IF v.type # "dict" THEN NoGet
    ELSE IF v.statusCode = <<200>> /\ DataIsTrue(v.data)
    THEN IF v.data.kind # "dict"
         THEN Throws("TypeError", "list indices must be integers")
         ELSE IF \E f \in {"code", "village", "district", "latitude", "longitude"} :
                    v.data.items[1][f] = <<>>
         THEN Throws("KeyError", "missing key")
         ELSE Printed(<< <<"Location detected">>,
                         <<"Postal Code:", v.data.items[1].code[1]>>,
                         <<"Area:", v.data.items[1].village[1], v.data.items[1].district[1]>>,
                         <<"Coordinates:", v.data.items[1].latitude[1],
                           v.data.items[1].longitude[1]>> >>)
    ELSE Printed(<< <<"Location detection failed">> >>)

\* the value the call returned, for the rest of the try block; when the call
\* raised, the rest of the block is skipped and this value is not looked at
Value(r) == IF r.status = "raised" THEN NonDictJson ELSE r.value[1]

\* the call and what follows it in the same try block
CallThen(r, rest) ==
    IF r.status = "raised" THEN [lines |-> <<>>, exc |-> r.exc] ELSE rest

(***************************************************************************)
(* except clauses of the callers: the line printed when the clause list    *)
(* catches e, <<>> when e propagates                                       *)
(***************************************************************************)
search_inner_except_no_catch_all(e) ==
    IF IsInstance(e, "ValueError") THEN << <<"Invalid input:", e.msg>> >>
    ELSE IF IsInstance(e, "RequestException") THEN << <<"Network error:", e.msg>> >>
    ELSE <<>>

\* interactive_search, lines 211-216
search_inner_except(e) ==
    IF IsInstance(e, "ValueError") THEN << <<"Invalid input:", e.msg>> >>
    ELSE IF IsInstance(e, "RequestException") THEN << <<"Network error:", e.msg>> >>
    ELSE IF IsInstance(e, "Exception") THEN << <<"Unexpected error:", e.msg>> >>
    ELSE <<>>

\* interactive_location_detection, lines 278-283
detect_inner_except(e) ==
    IF IsInstance(e, "ValueError") THEN << <<"Invalid coordinates:", e.msg>> >>
    ELSE IF IsInstance(e, "RequestException") THEN << <<"Network error:", e.msg>> >>
    ELSE IF IsInstance(e, "Exception") THEN << <<"Unexpected error:", e.msg>> >>
    ELSE <<>>

\* lines 220-225 and 287-292: except KeyboardInterrupt / EOFError: break
loop_outer_except(e) == IsInstance(e, "KeyboardInterrupt") \/ IsInstance(e, "EOFError")

\* main, lines 326-331: except KeyboardInterrupt / EOFError: sys.exit(0)
main_except(e) == IsInstance(e, "KeyboardInterrupt") \/ IsInstance(e, "EOFError")

\* quick_demo, lines 368 and 388: except Exception
demo_except(e) == IsInstance(e, "Exception")

\* __main__, line 424: except ValueError
main_detect_except(e) == IsInstance(e, "ValueError")

\* __main__, lines 429-434: the exit code of the process when e reaches the
\* top level (an exception no clause catches ends the interpreter with 1)
top_level_except(e) == IF IsInstance(e, "KeyboardInterrupt") THEN 0 ELSE 1

\* an exception leaving interactive_search, interactive_location_detection
\* or quick_demo passes main's except clauses, then the top level's
unwind_from_main(e) == IF main_except(e) THEN 0 ELSE top_level_except(e)

GoodbyeLine == <<"Goodbye!">>

(***************************************************************************)
(* Spec: the program, from the command line to its exit                    *)
(***************************************************************************)
Input(line) == [raises |-> <<>>, line |-> line]

InputRaises(type) == [raises |-> <<type>>, line |-> <<>>]

Interrupts == {InputRaises("KeyboardInterrupt"), InputRaises("EOFError")}

ExitWord == <<"e", "x", "i", "t">>

HelpWord == <<"h", "e", "l", "p">>

MenuInputs ==
    {Input(l) : l \in {<<"1">>, <<"2">>, <<"3">>, <<"4">>, <<"5">>, <<>>,
                       <<" ", "1", " ">>}}
        \cup Interrupts

SearchInputs ==
    {Input(l) : l \in {ExitWord, <<" ", "E", "x", "i", "T", " ">>, HelpWord,
                       <<"H", "E", "L", "P">>, <<>>, <<" ", " ">>, <<"a">>,
                       <<" ", "a", "\t">>, <<"a", "b">>, <<" ", "a", "b", " ">>}}
        \cup Interrupts

DetectInputs ==
    {Input(l) : l \in {ExitWord, <<"E", "X", "I", "T">>, HelpWord, <<>>,
                       <<"6", ",", "9", "5">>, <<"-", "1", "1", ",", "1", "4", "1">>,
                       <<"7", ",", "9", "5">>, <<"6", ",", "9", "4">>, <<"6">>,
                       <<"6", ",", "9", "5", ",", "1">>, <<"x", ",", "9", "5">>,
                       <<" ", "6", " ", ",", " ", "9", "5", " ">>, <<",">>}}
        \cup Interrupts

Script == <<"s">>

CliArgs ==
    {<<>>, <<"a">>, <<" ", "a">>, <<"a", "b">>, <<"6">>, <<"9", "5">>,
     <<"-", "1", "2">>, <<"1", "4", "1">>, <<"x">>}

Argvs ==
    {<<Script>>}
        \cup {<<Script, a>> : a \in CliArgs}
        \cup {<<Script, a, b>> : a \in CliArgs, b \in CliArgs}
        \cup {<<Script, <<"a", "b">>, <<"6">>, <<"9", "5">>>>}

demo_queries ==
    << <<"J", "a", "k", "a", "r", "t", "a">>,
       <<"M", "e", "n", "t", "e", "n", "g">>,
       <<"1", "0", "1", "1", "0">>,
       <<"D", "K", "I", " ", "J", "a", "k", "a", "r", "t", "a">> >>

\* quick_demo calls detect_location(-6.2088, 106.8456); in whole degrees
DemoLatitude == -6

DemoLongitude == 106

Init ==
    /\ InitCommon
    /\ pc = "start"
    /\ argv \in Argvs
    /\ results = <<>>

\* the process ends with this code
Exit(code) ==
    /\ pc' = "exited"
    /\ exitCode' = <<code>>

\* __main__ with no argument: main() prints the menu
MainInteractive ==
    /\ pc = "start" /\ Len(argv) = 1
    /\ pc' = "menu"
    /\ out' = << <<"Choose an option:">> >>
    /\ UNCHANGED <<argv, exitCode, loopEnd, demoIdx, results, clientVars>>

\* __main__ with one argument, lines 401-405
MainSearchCall ==
    /\ pc = "start" /\ Len(argv) = 2
    /\ pc' = "cli_search"
    /\ out' = << <<"Searching for:", argv[2]>> >>
    /\ Enter("search", Str(argv[2]), 0, 0)
    /\ UNCHANGED <<argv, exitCode, loopEnd, demoIdx, results>>

\* lines 405-410 once the call has ended; nothing but the top level catches
MainSearchDone ==
    /\ pc = "cli_search" /\ cpc = "done"
    /\ LET b == CallThen(ret, main_search_body(Value(ret)))
       IN  IF b.exc = <<>>
           THEN /\ out' = b.lines
                /\ Exit(0)
           ELSE /\ out' = b.lines \o << <<"Unexpected error:", b.exc[1].msg>> >>
                /\ Exit(top_level_except(b.exc[1]))
    /\ Leave
    /\ UNCHANGED <<argv, loopEnd, demoIdx, results>>

\* __main__ with two arguments, lines 412-418 and 424-425
MainDetectCall ==
    /\ pc = "start" /\ Len(argv) = 3
    /\ IF float(argv[2]) = <<>> \/ float(argv[3]) = <<>>
       THEN /\ out' = << <<"Invalid coordinates. Use: python simple_search.py latitude longitude">> >>
            /\ Exit(0)
            /\ UNCHANGED clientVars
       ELSE /\ out' = << <<"Detecting location:", float(argv[2])[1], float(argv[3])[1]>> >>
            /\ pc' = "cli_detect"
            /\ exitCode' = exitCode
            /\ Enter("detect", Str(<<>>), float(argv[2])[1], float(argv[3])[1])
    /\ UNCHANGED <<argv, loopEnd, demoIdx, results>>

\* lines 418-425 once the call has ended
MainDetectDone ==
    /\ pc = "cli_detect" /\ cpc = "done"
    /\ LET b == CallThen(ret, main_detect_body(Value(ret)))
       IN  IF b.exc = <<>>
           THEN /\ out' = b.lines
                /\ Exit(0)
           ELSE IF main_detect_except(b.exc[1])
           THEN /\ out' = b.lines \o << <<"Invalid coordinates. Use: python simple_search.py latitude longitude">> >>
                /\ Exit(0)
           ELSE /\ out' = b.lines \o << <<"Unexpected error:", b.exc[1].msg>> >>
                /\ Exit(top_level_except(b.exc[1]))
    /\ Leave
    /\ UNCHANGED <<argv, loopEnd, demoIdx, results>>

\* __main__ with three arguments or more: neither branch is taken
MainNoBranch ==
    /\ pc = "start" /\ Len(argv) > 3
    /\ Exit(0)
    /\ UNCHANGED <<argv, loopEnd, demoIdx, results, out, clientVars>>

\* main: one pass of the menu loop, lines 305-331
MenuChoice ==
    /\ pc = "menu"
    /\ \E in \in MenuInputs :
          IF in.raises # <<>>
          THEN /\ out' = <<GoodbyeLine>>
               /\ Exit(IF main_except(Exc(in.raises[1], "")) THEN 0
                       ELSE top_level_except(Exc(in.raises[1], "")))
          ELSE LET choice == strip(in.line)
               IN  CASE choice = <<"1">> ->
                          /\ pc' = "search_prompt"
                          /\ out' = << <<"Interactive Search">> >>
                          /\ exitCode' = exitCode
                     [] choice = <<"2">> ->
                          /\ pc' = "detect_prompt"
                          /\ out' = << <<"Location Detection">> >>
                          /\ exitCode' = exitCode
                     [] choice = <<"3">> ->
                          /\ pc' = "demo"
                          /\ out' = << <<"Quick Demo">> >>
                          /\ exitCode' = exitCode
                     [] choice = <<"4">> ->
                          /\ out' = <<GoodbyeLine>>
                          /\ Exit(0)
                     [] OTHER ->
                          /\ pc' = "menu"
                          /\ out' = << <<"Invalid choice. Please enter 1-4.">> >>
                          /\ exitCode' = exitCode
    /\ UNCHANGED <<argv, loopEnd, demoIdx, results, clientVars>>

\* the loop is left: by break (the function returns, main breaks and returns,
\* the process ends with 0), or by an exception no clause of the loop catches
LoopLeft(cause, code) ==
    /\ loopEnd' = <<cause>>
    /\ Exit(code)

\* an exception e raised in the loop body outside the inner try, or one the
\* inner try does not catch: the outer try of the loop
OuterTry(e) ==
    IF loop_outer_except(e)
    THEN /\ out' = <<GoodbyeLine>>
         /\ LoopLeft(e.type, 0)
    ELSE /\ out' = <<>>
         /\ LoopLeft(e.type, unwind_from_main(e))

\* the lines of the except clause of the inner try that catches b.exc
SearchCaught(b) == IF b.exc = <<>> THEN <<>> ELSE search_inner_except(b.exc[1])

DetectCaught(b) == IF b.exc = <<>> THEN <<>> ELSE detect_inner_except(b.exc[1])

\* the end of one pass whose inner try block printed b.lines and raised
\* b.exc, caught being the lines of the clause that catches it
InnerTry(b, caught, prompt, width) ==
    IF b.exc = <<>>
    THEN /\ out' = b.lines \o <<SeparatorLine(width)>>
         /\ pc' = prompt
         /\ UNCHANGED <<exitCode, loopEnd>>
    ELSE IF caught # <<>>
    THEN /\ out' = b.lines \o caught \o <<SeparatorLine(width)>>
         /\ pc' = prompt
         /\ UNCHANGED <<exitCode, loopEnd>>
    ELSE OuterTry(b.exc[1])

\* interactive_search: input() and lines 174-199
SearchPrompt ==
    /\ pc = "search_prompt"
    /\ \E in \in SearchInputs :
          IF in.raises # <<>>
          THEN /\ OuterTry(Exc(in.raises[1], ""))
               /\ UNCHANGED clientVars
          ELSE LET q == strip(in.line)
               IN  IF lower(q) = ExitWord
                   THEN /\ out' = <<GoodbyeLine>>
                        /\ LoopLeft("exit", 0)
                        /\ UNCHANGED clientVars
                   ELSE IF lower(q) = HelpWord \/ q = <<>> \/ Len(q) < 2
                   THEN /\ out' = << <<IF lower(q) = HelpWord THEN "Help:"
                                       ELSE IF q = <<>> THEN "Please enter a search term"
                                       ELSE "Query must be at least 2 characters long">> >>
                        /\ UNCHANGED <<pc, exitCode, loopEnd, clientVars>>
                   ELSE /\ out' = << <<"Searching for:", q>> >>
                        /\ pc' = "search_wait"
                        /\ Enter("search", Str(q), 0, 0)
                        /\ UNCHANGED <<exitCode, loopEnd>>
    /\ UNCHANGED <<argv, demoIdx, results>>

\* interactive_search: lines 199-218 once the call has ended
SearchDone ==
    /\ pc = "search_wait" /\ cpc = "done"
    /\ InnerTry(CallThen(ret, interactive_search_body(Value(ret))),
                SearchCaught(CallThen(ret, interactive_search_body(Value(ret)))),
                "search_prompt", 60)
    /\ Leave
    /\ UNCHANGED <<argv, demoIdx, results>>

\* interactive_location_detection: input() and lines 241-270
DetectPrompt ==
    /\ pc = "detect_prompt"
    /\ \E in \in DetectInputs :
          IF in.raises # <<>>
          THEN /\ OuterTry(Exc(in.raises[1], ""))
               /\ UNCHANGED clientVars
          ELSE LET input_str == strip(in.line)
                   parts == split(input_str, ",")
               IN  IF lower(input_str) = ExitWord
                   THEN /\ out' = <<GoodbyeLine>>
                        /\ LoopLeft("exit", 0)
                        /\ UNCHANGED clientVars
                   ELSE IF lower(input_str) = HelpWord \/ input_str = <<>>
                   THEN /\ out' = << <<IF input_str = <<>> THEN "Please enter coordinates"
                                       ELSE "Help:">> >>
                        /\ UNCHANGED <<pc, exitCode, loopEnd, clientVars>>
                   ELSE IF Len(parts) # 2
                   THEN /\ InnerTry(Throws("ValueError", "Format should be: latitude,longitude"),
                                    DetectCaught(Throws("ValueError",
                                                        "Format should be: latitude,longitude")),
                                    "detect_prompt", 50)
                        /\ UNCHANGED clientVars
                   ELSE IF float(parts[1]) = <<>> \/ float(parts[2]) = <<>>
                   THEN /\ InnerTry(Throws("ValueError", "could not convert string to float"),
                                    DetectCaught(Throws("ValueError",
                                                        "could not convert string to float")),
                                    "detect_prompt", 50)
                        /\ UNCHANGED clientVars
                   ELSE /\ out' = << <<"Detecting postal code for:", float(parts[1])[1],
                                       float(parts[2])[1]>> >>
                        /\ pc' = "detect_wait"
                        /\ Enter("detect", Str(<<>>), float(parts[1])[1], float(parts[2])[1])
                        /\ UNCHANGED <<exitCode, loopEnd>>
    /\ UNCHANGED <<argv, demoIdx, results>>

\* interactive_location_detection: lines 270-285 once the call has ended
DetectDone ==
    /\ pc = "detect_wait" /\ cpc = "done"
    /\ InnerTry(CallThen(ret, interactive_detect_body(Value(ret))),
                DetectCaught(CallThen(ret, interactive_detect_body(Value(ret)))),
                "detect_prompt", 50)
    /\ Leave
    /\ UNCHANGED <<argv, demoIdx, results>>

\* quick_demo: lines 348-353, the next entry of demo_queries
DemoSearchCall ==
    /\ pc = "demo" /\ demoIdx <= Len(demo_queries)
    /\ out' = << <<"Search:", demo_queries[demoIdx]>> >>
    /\ pc' = "demo_wait"
    /\ Enter("search", Str(demo_queries[demoIdx]), 0, 0)
    /\ UNCHANGED <<argv, exitCode, loopEnd, demoIdx, results>>

\* what an exception does that quick_demo does not catch: it leaves
\* interactive mode through main
DemoTry(b, pcNext, idxNext) ==
    IF b.exc = <<>>
    THEN /\ out' = b.lines
         /\ pc' = pcNext /\ demoIdx' = idxNext /\ exitCode' = exitCode
    ELSE IF demo_except(b.exc[1])
    THEN /\ out' = b.lines \o << <<"Error:", b.exc[1].msg>> >>
         /\ pc' = pcNext /\ demoIdx' = idxNext /\ exitCode' = exitCode
    ELSE /\ out' = b.lines
         /\ Exit(unwind_from_main(b.exc[1]))
         /\ demoIdx' = demoIdx

\* quick_demo: lines 353-369 once the call has ended
DemoSearchDone ==
    /\ pc = "demo_wait" /\ cpc = "done"
    /\ DemoTry(CallThen(ret, demo_search_body(Value(ret))), "demo", demoIdx + 1)
    /\ Leave
    /\ UNCHANGED <<argv, loopEnd, results>>

\* quick_demo: lines 375-377
DemoDetectCall ==
    /\ pc = "demo" /\ demoIdx > Len(demo_queries)
    /\ out' = << <<"Location Detection Demo">> >>
    /\ pc' = "demo_detect_wait"
    /\ Enter("detect", Str(<<>>), DemoLatitude, DemoLongitude)
    /\ UNCHANGED <<argv, exitCode, loopEnd, demoIdx, results>>

\* quick_demo: lines 377-392 once the call has ended
DemoDetectDone ==
    /\ pc = "demo_detect_wait" /\ cpc = "done"
    /\ DemoTry(CallThen(ret, demo_detect_body(Value(ret))), "demo_end", demoIdx)
    /\ Leave
    /\ UNCHANGED <<argv, loopEnd, results>>

\* quick_demo returns, main breaks and returns, the process ends
DemoComplete ==
    /\ pc = "demo_end"
    /\ out' = << <<"Demo complete! Try the interactive modes for more exploration.">> >>
    /\ Exit(0)
    /\ UNCHANGED <<argv, loopEnd, demoIdx, results, clientVars>>

Next ==
    \/ MainInteractive \/ MainSearchCall \/ MainSearchDone
    \/ MainDetectCall \/ MainDetectDone \/ MainNoBranch
    \/ MenuChoice
    \/ SearchPrompt \/ SearchDone
    \/ DetectPrompt \/ DetectDone
    \/ DemoSearchCall \/ DemoSearchDone \/ DemoDetectCall \/ DemoDetectDone
    \/ DemoComplete
    \/ ClientStep

Spec == Init /\ [][Next]_vars

(***************************************************************************)
(* Properties of the client methods (SpecClient)                           *)
(***************************************************************************)
Finished(method) == cpc = "done" /\ op = method

InFlight(method) == cpc \in {"get", "handle"} /\ op = method

ShortQuery(q) == q.type = "str" /\ (q.v = <<>> \/ Len(strip(q.v)) < 2)

InBox(lat, lng) == -11 <= lat /\ lat <= 6 /\ 95 <= lng /\ lng <= 141

RaisedType(type) == ret.status = "raised" /\ ret.exc[1].type = type

GetTimedOut == net # <<>> /\ net[1].raises \in {<<"ReadTimeout">>, <<"ConnectTimeout">>}

GetFailedToConnect == net # <<>> /\ net[1].raises = <<"ConnectionError">>

GotResponse == net # <<>> /\ net[1].raises = <<>>

GotJson == GotResponse /\ net[1].body # <<>>

\* C1: a query string that is empty or shorter than 2 characters once trimmed
\* makes search_postal_codes raise ValueError with no GET issued, and such a
\* query never gets as far as the GET.
C1_ShortQueryRejectedBeforeGet ==
    ShortQuery(query) =>
        /\ ~InFlight("search")
        /\ Finished("search") => (RaisedType("ValueError") /\ netCalls = 0 /\ net = <<>>)

C1_Witness ==
    /\ Finished("search") /\ RaisedType("ValueError")
    /\ Len(query.v) >= 2 /\ ShortQuery(query)

\* C2: coordinates outside latitude [-11, 6] or longitude [95, 141] make
\* detect_location raise ValueError with no GET issued; coordinates inside
\* the box, its four boundaries included, pass validation and reach the GET.
C2_BoxCheckedBeforeGet ==
    /\ ~InBox(latitude, longitude) =>
          /\ ~InFlight("detect")
          /\ Finished("detect") => (RaisedType("ValueError") /\ netCalls = 0 /\ net = <<>>)
    /\ (InBox(latitude, longitude) /\ Finished("detect")) =>
          (netCalls = 1 /\ net # <<>> /\ ~RaisedType("ValueError"))

C2_Witness ==
    /\ Finished("detect") /\ netCalls = 1
    /\ latitude \in {-11, 6} /\ longitude \in {95, 141}

\* C3 as stated: a timeout of the GET surfaces as an error whose kind is the
\* timeout kind, which a connection failure does not have.
C3_TimeoutHasItsOwnKind ==
    (cpc = "done" /\ GetTimedOut) =>
        (ret.status = "raised" /\ IsInstance(ret.exc[1], "Timeout"))

\* C3 amended: a timeout and a connection failure both surface as
\* requests.RequestException, the same kind; only the message tells them
\* apart ("Request timeout after 10 seconds" / "Failed to connect to API").
C3_TimeoutToldApartByMessage ==
    cpc = "done" =>
        /\ GetTimedOut =>
              ret = Raised(Exc("RequestException", "Request timeout after 10 seconds"))
        /\ GetFailedToConnect =>
              ret = Raised(Exc("RequestException", "Failed to connect to API"))

C3_Witness ==
    /\ cpc = "done" /\ net = <<NetRaise("ConnectTimeout")>>
    /\ RaisedType("RequestException")

\* C4 as stated: whenever the body of the response is valid JSON the parsed
\* envelope is returned, whatever the HTTP status.
C4_JsonReturnedWhateverStatus ==
    (cpc = "done" /\ GotJson) => ret = Returned(net[1].body[1])

\* C4 amended: a JSON body is returned parsed exactly when the HTTP status is
\* not in 400..599; with a status in 400..599 the call raises
\* RequestException "HTTP error: <status>" whatever the body.
C4_JsonReturnedUnlessErrorStatus ==
    (cpc = "done" /\ GotResponse) =>
        IF 400 <= net[1].status /\ net[1].status <= 599
        THEN ret = Raised(Exc("RequestException",
                              "HTTP error: " \o ToString(net[1].status)))
        ELSE GotJson => ret = Returned(net[1].body[1])

C4_Witness ==
    /\ cpc = "done" /\ GotJson /\ net[1].status = 304
    /\ ret.status = "returned"

ValidInput ==
    IF op = "search" THEN query.type = "str" /\ ~ShortQuery(query)
    ELSE InBox(latitude, longitude)

OneGetOnly ==
    /\ netCalls <= 1
    /\ cpc = "done" => netCalls = (IF ValidInput THEN 1 ELSE 0)

\* C5 as stated: at most one GET per call (one for a valid input, none
\* otherwise), and a timeout, a connection failure, a non-2xx status or an
\* unparseable body is surfaced to the caller as an error.
C5_OneGetAndNon2xxSurfaced ==
    /\ OneGetOnly
    /\ (cpc = "done" /\ net # <<>>
          /\ (\/ net[1].raises # <<>>
              \/ net[1].status < 200 \/ net[1].status > 299
              \/ net[1].body = <<>>))
       => ret.status = "raised"

\* C5 amended: at most one GET per call (one for a valid input, none
\* otherwise), and a timeout, a connection failure, a status in 400..599 or
\* an unparseable body is surfaced to the caller as an error.
C5_OneGetAndFailureSurfaced ==
    /\ OneGetOnly
    /\ (cpc = "done" /\ net # <<>>
          /\ (\/ net[1].raises # <<>>
              \/ (400 <= net[1].status /\ net[1].status <= 599)
              \/ net[1].body = <<>>))
       => ret.status = "raised"

C5_Witness ==
    /\ cpc = "done" /\ netCalls = 1
    /\ net = <<NetRaise("ReadTimeout")>> /\ ret.status = "raised"

(***************************************************************************)
(* Properties of format_results (SpecRender)                               *)
(***************************************************************************)
RECURSIVE BlocksUpTo(_, _)
BlocksUpTo(rs, n) ==
    IF n = 0 THEN <<>> ELSE BlocksUpTo(rs, n - 1) \o Block(n, rs[n])

VillageLines == SelectSeq(out, LAMBDA line : line[1] = "village")

\* C6: for a non-empty sequence of n records the output is the header
\* stating n, then the blocks of the records in input order, numbered 1..n:
\* nothing dropped, duplicated or re-sorted.
C6_BlocksInInputOrder ==
    (pc = "rendered" /\ results # <<>>) =>
        /\ out[1] = HeaderLine(Len(results))
        /\ SubSeq(out, 3, Len(out)) = BlocksUpTo(results, Len(results))
        /\ Len(VillageLines) = Len(results)
        /\ \A i \in 1..Len(results) : VillageLines[i][2] = i

C6_Witness ==
    /\ pc = "rendered" /\ Len(results) = 2
    /\ results[1] = Pontianak /\ results[2] = CodeOnly
    /\ VillageLines = << <<"village", 1, "Pontianak">>, <<"village", 2, "N/A">> >>

BlockStart(i) == CHOOSE k \in 1..Len(out) : out[k][1] = "village" /\ out[k][2] = i

BlockEnd(i) == IF i = Len(results) THEN Len(out) ELSE BlockStart(i + 1) - 1

HasLine(i, tag) == \E k \in BlockStart(i)..BlockEnd(i) : out[k][1] = tag

\* C7: in the block of each record the coordinates line is printed exactly
\* when latitude and longitude are both present, and the elevation, timezone
\* and distance lines exactly when that field is present, the value 0
\* included.
C7_LinePrintedIffFieldPresent ==
    (pc = "rendered" /\ results # <<>>) =>
        \A i \in 1..Len(results) :
            /\ HasLine(i, "Coordinates") <=>
                  (results[i].latitude # <<>> /\ results[i].longitude # <<>>)
            /\ HasLine(i, "Elevation") <=> results[i].elevation # <<>>
            /\ HasLine(i, "Timezone") <=> results[i].timezone # <<>>
            /\ HasLine(i, "Distance") <=> results[i].distance # <<>>

\* C8: for the empty sequence the output is the "no results" line alone.
C8_EmptyPrintsNoResultsOnly ==
    (pc = "rendered" /\ results = <<>>) => out = <<NoResultsLine>>

C8_Witness == pc = "rendered" /\ results = <<>> /\ Len(out) = 1

(***************************************************************************)
(* Properties of the interactive loops and of the entry point (Spec)       *)
(***************************************************************************)
LoopMessages ==
    {"Invalid input:", "Invalid coordinates:", "Network error:", "Unexpected error:"}

\* the lookup of this pass, or the rendering of its result, raised an
\* exception other than the interrupt
SearchFailed ==
    /\ pc = "search_wait" /\ cpc = "done"
    /\ CallThen(ret, interactive_search_body(Value(ret))).exc # <<>>
    /\ CallThen(ret, interactive_search_body(Value(ret))).exc[1].type # "KeyboardInterrupt"

DetectFailed ==
    /\ pc = "detect_wait" /\ cpc = "done"
    /\ CallThen(ret, interactive_detect_body(Value(ret))).exc # <<>>
    /\ CallThen(ret, interactive_detect_body(Value(ret))).exc[1].type # "KeyboardInterrupt"

MessageThenPrompt(prompt) ==
    /\ pc' = prompt
    /\ Len(out') >= 2
    /\ out'[Len(out') - 1][1] \in LoopMessages

\* C9: an interactive loop ends only on the exit command, an interrupt or
\* the end of input; after a failed lookup (any exception raised by the
\* lookup or by rendering its result) the loop prints a message and is back
\* at its prompt.
C9_LoopSurvivesErrors ==
    /\ [](loopEnd \in {<<>>, <<"exit">>, <<"KeyboardInterrupt">>, <<"EOFError">>})
    /\ [][/\ SearchFailed => MessageThenPrompt("search_prompt")
          /\ DetectFailed => MessageThenPrompt("detect_prompt")]_vars

C9_Witness ==
    /\ pc = "search_prompt" /\ Len(out) >= 2
    /\ out[Len(out) - 1][1] = "Unexpected error:"

InvalidCommandLine ==
    \/ Len(argv) = 2 /\ ShortQuery(Str(argv[2]))
    \/ /\ Len(argv) = 3
       /\ \/ float(argv[2]) = <<>>
          \/ float(argv[3]) = <<>>
          \/ ~InBox(float(argv[2])[1], float(argv[3])[1])

\* C10: no argument leads to the menu, one to a search of that query, two
\* to a detection at these coordinates; the process ends with code 0 or 1,
\* and an invalid input on the command line (a query shorter than 2
\* characters, coordinates that are no numbers or lie outside the box) is no
\* unexpected error: the exit code is 0.
C10_InvalidInputExitsZero ==
    /\ pc = "menu" => Len(argv) = 1
    /\ pc = "cli_search" => (Len(argv) = 2 /\ op = "search"
                              /\ query.v \in {argv[2], strip(argv[2])})
    /\ pc = "cli_detect" => (Len(argv) = 3 /\ op = "detect"
                              /\ <<latitude>> = float(argv[2])
                              /\ <<longitude>> = float(argv[3]))
    /\ pc = "exited" => exitCode \in {<<0>>, <<1>>}
    /\ (pc = "exited" /\ InvalidCommandLine) => exitCode = <<0>>
====
